---- MODULE Spec2Model ----
(***************************************************************************)
(* The reconciliation and load pipeline of The-Drug-Database               *)
(* (src/backend/database/load_data.py): build_ndc_lookup, the four table   *)
(* loaders, the two aggregate passes, remove_duplicates and main.          *)
(*                                                                         *)
(* Values.  A Python value is a tagged tuple: None is <<"None">>, the      *)
(* float NaN pandas gives for an empty cell is <<"float","nan">>, a str is *)
(* <<"str", s>>, an int <<"int", n>>, a date <<"date", y, m, d>>.  The     *)
(* same tuples are the column values of the store (None is SQL NULL).      *)
(* A str whose characters matter (codes, numbers: strip, zfill, replace)   *)
(* carries a sequence of one-character strings; a str that is only stored  *)
(* and compared carries a TLA+ string.                                     *)
(*                                                                         *)
(* A DataFrame row is a function from the column names of the extract to   *)
(* cell values; a column the extract lacks is outside its DOMAIN, which is *)
(* what row.get(col, '') tests.  Columns are read with object dtype.       *)
(* Text equality in the store is equality of the strings.                  *)
(***************************************************************************)
EXTENDS Integers, Sequences, FiniteSets, TLC

\* ------------------------------------------------------------------------
\* Python values
\* ------------------------------------------------------------------------
None == <<"None">>
NaN == <<"float", "nan">>
Str(s) == <<"str", s>>
PyInt(n) == <<"int", n>>
NULL == None

\* pandas.isna(v)
isna(v) == v = NaN \/ v = None

\* str(v) of a cell whose text is a TLA+ string
str(v) == IF v = NaN THEN "nan" ELSE IF v = None THEN "None" ELSE v[2]

\* str(v) of a cell whose text is a sequence of characters
strC(v) ==
    IF v = NaN THEN <<"n", "a", "n">>
    ELSE IF v = None THEN <<"N", "o", "n", "e">>
    ELSE v[2]

\* row.get(col, default)
get(row, col, default) == IF col \in DOMAIN row THEN row[col] ELSE default

\* `s or None` for a Python str s (TLA+ string)
orNone(s) == IF s = "" THEN None ELSE Str(s)

\* `s or None` for a Python str s (sequence of characters)
orNoneC(s) == IF s = <<>> THEN None ELSE Str(s)

\* str.strip(): leading and trailing whitespace removed
RECURSIVE lstrip(_)
lstrip(s) == IF s # <<>> /\ Head(s) = " " THEN lstrip(Tail(s)) ELSE s

RECURSIVE rstrip(_)
rstrip(s) ==
    IF s # <<>> /\ s[Len(s)] = " " THEN rstrip(SubSeq(s, 1, Len(s) - 1)) ELSE s

strip(s) == rstrip(lstrip(s))

\* str.replace(ch, ''): every occurrence of the character removed
replace(s, ch) == SelectSeq(s, LAMBDA c : c # ch)

\* str.zfill(width): zeros on the left up to width, after a leading sign;
\* a string of width or more characters is returned as it is
RECURSIVE zeros(_)
zeros(n) == IF n <= 0 THEN <<>> ELSE <<"0">> \o zeros(n - 1)

zfill(s, width) ==
    IF Len(s) >= width THEN s
    ELSE IF s # <<>> /\ Head(s) \in {"+", "-"}
         THEN <<Head(s)>> \o zeros(width - Len(s)) \o Tail(s)
         ELSE zeros(width - Len(s)) \o s

\* ------------------------------------------------------------------------
\* Field normalizers
\* ------------------------------------------------------------------------
Digit == {"0", "1", "2", "3", "4", "5", "6", "7", "8", "9"}

DigitVal(c) ==
    CASE c = "0" -> 0 [] c = "1" -> 1 [] c = "2" -> 2 [] c = "3" -> 3
      [] c = "4" -> 4 [] c = "5" -> 5 [] c = "6" -> 6 [] c = "7" -> 7
      [] c = "8" -> 8 [] c = "9" -> 9

RECURSIVE DigitsVal(_)
DigitsVal(s) ==
    IF s = <<>> THEN 0 ELSE 10 * DigitsVal(SubSeq(s, 1, Len(s) - 1)) + DigitVal(s[Len(s)])

AllDigits(s) == s # <<>> /\ \A k \in 1..Len(s) : s[k] \in Digit

\* The date texts of the extracts and what
\* datetime.strptime(text, '%Y-%m-%d').date() makes of each: a date, or
\* <<>> where strptime raises ValueError.  %m and %d accept one digit.
strptime(text) ==
    CASE text = "2020-01-01" -> <<"date", 2020, 1, 1>>
      [] text = "2020-1-1" -> <<"date", 2020, 1, 1>>
      [] text = "2021-06-30" -> <<"date", 2021, 6, 30>>
      [] OTHER -> <<>>

\* parse_date; the date cells of the model carry no surrounding blanks
parse_date(date_str) ==
    IF isna(date_str) \/ str(date_str) = "" THEN None
    ELSE IF strptime(str(date_str)) = <<>> THEN None
    ELSE strptime(str(date_str))

\* parse_int: int(cleaned) of an optional sign and digits, None otherwise
int(s) ==
    IF AllDigits(s) THEN PyInt(DigitsVal(s))
    ELSE IF Len(s) > 1 /\ Head(s) = "-" /\ AllDigits(Tail(s)) THEN PyInt(0 - DigitsVal(Tail(s)))
    ELSE IF Len(s) > 1 /\ Head(s) = "+" /\ AllDigits(Tail(s)) THEN PyInt(DigitsVal(Tail(s)))
    ELSE None

parse_int(value) ==
    IF isna(value) \/ strip(strC(value)) = <<>> THEN None
    ELSE LET cleaned == strip(replace(strC(value), ","))
         IN  IF cleaned = <<>> THEN None ELSE int(strip(cleaned))

\* parse_decimal: float(cleaned) of digits with at most one point, kept as
\* <<"float", whole, fraction digits>>; None otherwise
PointAt(s) == IF \E k \in 1..Len(s) : s[k] = "." THEN CHOOSE k \in 1..Len(s) : s[k] = "." ELSE 0

RECURSIVE rstripZeros(_)
rstripZeros(s) ==
    IF s # <<>> /\ s[Len(s)] = "0" THEN rstripZeros(SubSeq(s, 1, Len(s) - 1)) ELSE s

float(s) ==
    IF AllDigits(s) THEN <<"float", DigitsVal(s), <<>>>>
    ELSE LET p == PointAt(s)
             whole == SubSeq(s, 1, p - 1)
             frac == SubSeq(s, p + 1, Len(s))
         IN  IF p > 0 /\ (whole # <<>> \/ frac # <<>>)
                /\ (whole = <<>> \/ AllDigits(whole)) /\ (frac = <<>> \/ AllDigits(frac))
             THEN <<"float", DigitsVal(whole), rstripZeros(frac)>>
             ELSE None

parse_decimal(value) ==
    IF isna(value) \/ strip(strC(value)) = <<>> THEN None
    ELSE LET cleaned == strip(replace(replace(replace(strC(value), "$"), ","), " "))
         IN  IF cleaned = <<>> THEN None ELSE float(cleaned)

\* normalize_code is defined in the source and called nowhere
zero_pad(code, length) ==
    IF code = None THEN None
    ELSE LET code_str == strip(strC(code))
         IN  IF code_str = <<>> THEN None ELSE Str(zfill(code_str, length))

\* ------------------------------------------------------------------------
\* The rows the loaders build (the tuples handed to executemany)
\* ------------------------------------------------------------------------
\* str(row.get(col, '')) or None
text(row, col) == orNone(str(get(row, col, Str(""))))

products_values(row) ==
    [appl_no |-> text(row, "Appl_No"),
     appl_type |-> text(row, "Appl_Type"),
     ingredient |-> text(row, "Ingredient"),
     dosage |-> text(row, "Dosage"),
     form |-> text(row, "Form"),
     route |-> text(row, "Route"),
     trade_name |-> text(row, "Trade_Name"),
     applicant |-> text(row, "Applicant"),
     strength |-> text(row, "Strength"),
     te_code |-> text(row, "TE_Code"),
     approval_date |-> parse_date(get(row, "Approval_Date", None)),
     rld |-> text(row, "RLD"),
     rs |-> text(row, "RS"),
     type |-> text(row, "Type"),
     applicant_full_name |-> text(row, "Applicant_Full_Name")]

exclusivity_values(row) ==
    [appl_no |-> text(row, "Appl_No"),
     appl_type |-> text(row, "Appl_Type"),
     ingredient |-> text(row, "Ingredient"),
     dosage |-> text(row, "Dosage"),
     form |-> text(row, "Form"),
     route |-> text(row, "Route"),
     trade_name |-> text(row, "Trade_Name"),
     strength |-> text(row, "Strength"),
     exclusivity_code |-> text(row, "Exclusivity_Code"),
     exclusivity_date |-> parse_date(get(row, "Exclusivity_Date", None))]

patent_values(row) ==
    [appl_no |-> text(row, "Appl_No"),
     appl_type |-> text(row, "Appl_Type"),
     ingredient |-> text(row, "Ingredient"),
     dosage |-> text(row, "Dosage"),
     form |-> text(row, "Form"),
     route |-> text(row, "Route"),
     trade_name |-> text(row, "Trade_Name"),
     applicant |-> text(row, "Applicant"),
     strength |-> text(row, "Strength"),
     patent_no |-> text(row, "Patent_No"),
     patent_expire_date_text |-> text(row, "Patent_Expire_Date_Text"),
     drug_substance_flag |-> text(row, "Drug_Substance_Flag"),
     drug_product_flag |-> text(row, "Drug_Product_Flag"),
     patent_use_code |-> text(row, "Patent_Use_Code"),
     submission_date |-> parse_date(get(row, "Submission_Date", None))]

\* The key a sales row is looked up with: both codes through zero_pad
sales_key(row) ==
    <<zero_pad(get(row, "Labeler Code", Str(<<>>)), 5),
      zero_pad(get(row, "Product Code", Str(<<>>)), 4)>>

\* sales_appl_no with the codes looked up as read, without zero_pad
sales_appl_no_unpadded(row, lookup) ==
    LET key == <<get(row, "Labeler Code", Str(<<>>)), get(row, "Product Code", Str(<<>>))>>
    IN  IF key \in DOMAIN lookup THEN lookup[key] ELSE None

\* appl_no of a sales row: ndc_lookup.get(key) when both codes are truthy
sales_appl_no(row, lookup) ==
    LET key == sales_key(row)
    IN  IF key[1] # None /\ key[2] # None /\ key \in DOMAIN lookup
        THEN lookup[key] ELSE None

sales_values(row, lookup) ==
    [appl_no |-> sales_appl_no(row, lookup),
     ingredient |-> text(row, "Ingredient"),
     route |-> text(row, "Route"),
     route_extended |-> text(row, "Route Ext"),
     dosage |-> text(row, "Dosage"),
     manufacturer |-> text(row, "Manufacturer"),
     strength |-> text(row, "Strength"),
     pack_quantity |-> parse_int(get(row, "Pack_Quantity", None)),
     ndc_number |-> orNoneC(strip(strC(get(row, "NDC Number", Str(<<>>))))),
     labeler_code |-> sales_key(row)[1],
     product_code |-> sales_key(row)[2],
     sales |-> parse_decimal(get(row, "Sales", None)),
     packs |-> parse_int(get(row, "Packs", None)),
     quantity |-> parse_int(get(row, "Quantity", None)),
     wac |-> parse_decimal(get(row, "WAC", None)),
     price |-> parse_decimal(get(row, "Price", None)),
     number_of_sellers |-> None]

\* ------------------------------------------------------------------------
\* The cross-reference builder's loop body
\* ------------------------------------------------------------------------
\* Whether build_ndc_lookup's guard lets the row through
ndc_accepts(row) ==
    LET labeler_code == zero_pad(get(row, "Labeler Code", Str(<<>>)), 5)
        product_code == zero_pad(get(row, "Product Code", Str(<<>>)), 4)
        appl_no == strip(strC(get(row, "Application Number", Str(<<>>))))
    IN  labeler_code # None /\ product_code # None /\ appl_no # <<>>

ndc_key(row) ==
    <<zero_pad(get(row, "Labeler Code", Str(<<>>)), 5),
      zero_pad(get(row, "Product Code", Str(<<>>)), 4)>>

\* ndc_step without the test of the key: the last row of a key wins
ndc_step_overwrites(lookup, row) ==
    LET appl_no == strip(strC(get(row, "Application Number", Str(<<>>))))
        key == ndc_key(row)
    IN  IF ndc_accepts(row)
        THEN [k \in DOMAIN lookup \cup {key} |->
                 IF k = key THEN Str(appl_no) ELSE lookup[k]]
        ELSE lookup

\* lookup after one iteration of the loop over the row
ndc_step(lookup, row) ==
    LET appl_no == strip(strC(get(row, "Application Number", Str(<<>>))))
        key == ndc_key(row)
    IN  IF ndc_accepts(row)
        THEN IF key \notin DOMAIN lookup
             THEN [k \in DOMAIN lookup \cup {key} |->
                      IF k = key THEN Str(appl_no) ELSE lookup[k]]
             ELSE IF lookup[key] = Str(<<>>)
                  THEN [lookup EXCEPT ![key] = Str(appl_no)]
                  ELSE lookup
        ELSE lookup

\* ------------------------------------------------------------------------
\* The store: executemany, the aggregate passes, the duplicate removal
\* ------------------------------------------------------------------------
batch_size == 1000

\* a = b in a WHERE or ON clause: true only of two equal non-NULL values
Eq(a, b) == a # NULL /\ b # NULL /\ a = b

\* EqOrBothNull with a NULL on either side accepted
EqOrEitherNull(a, b) == a = NULL \/ b = NULL \/ a = b

\* (a = b OR (a IS NULL AND b IS NULL))
EqOrBothNull(a, b) == IF a = NULL /\ b = NULL THEN TRUE ELSE Eq(a, b)

\* cursor.executemany(insert_sql, batch) and conn.commit(): the rows are
\* appended in batch order, id from the table's AUTO_INCREMENT counter, the
\* columns the INSERT does not list NULL.  Nothing is deleted before the
\* last insert, so the counter stands at the number of rows.
executemany(table, batch, unlisted) ==
    table \o [k \in 1..Len(batch) |-> batch[k] @@ unlisted @@ [id |-> Len(table) + k]]

Rows(table) == {table[k] : k \in 1..Len(table)}

\* COUNT(appl_no), without DISTINCT: the rows with a non-NULL appl_no
count_appl_no(rows) == Cardinality({r \in rows : r.appl_no # NULL})

\* COUNT(DISTINCT appl_no) over a set of rows: NULLs are not counted
count_distinct_appl_no(rows) == Cardinality({r.appl_no : r \in rows} \ {NULL})

\* SELECT ingredient, dosage, COUNT(DISTINCT appl_no) ... GROUP BY
\* ingredient, dosage over the rows: NULLs group together
group_by_ingredient_dosage(rows) ==
    {[ingredient |-> g[1], dosage |-> g[2],
      n |-> count_distinct_appl_no({r \in rows : r.ingredient = g[1] /\ r.dosage = g[2]})]
        : g \in {<<r.ingredient, r.dosage>> : r \in rows}}

\* join_update with the second ON condition written t.dosage = s.ingredient
join_update_wrong_on(table, s, column) ==
    [k \in 1..Len(table) |->
        LET m == {x \in s : Eq(table[k].ingredient, x.ingredient)
                            /\ Eq(table[k].dosage, x.ingredient)}
        IN  IF m = {} THEN table[k]
            ELSE [table[k] EXCEPT ![column] = PyInt((CHOOSE x \in m : TRUE).n)]]

\* join_update with SET t.<column> = COALESCE(t.<column>, 0) + s.n: the
\* count added to what the row holds
join_update_adds(table, s, column) ==
    [k \in 1..Len(table) |->
        LET m == {x \in s : Eq(table[k].ingredient, x.ingredient)
                            /\ Eq(table[k].dosage, x.dosage)}
            held == IF table[k][column] = NULL THEN 0 ELSE table[k][column][2]
        IN  IF m = {} THEN table[k]
            ELSE [table[k] EXCEPT ![column] = PyInt(held + (CHOOSE x \in m : TRUE).n)]]

\* UPDATE t JOIN (...) s ON t.ingredient = s.ingredient AND t.dosage =
\* s.dosage SET t.<column> = s.n: a row is updated from the group it joins
join_update(table, s, column) ==
    [k \in 1..Len(table) |->
        LET m == {x \in s : Eq(table[k].ingredient, x.ingredient)
                            /\ Eq(table[k].dosage, x.dosage)}
        IN  IF m = {} THEN table[k]
            ELSE [table[k] EXCEPT ![column] = PyInt((CHOOSE x \in m : TRUE).n)]]

populate_approvals_sql(products) ==
    join_update(products, group_by_ingredient_dosage(Rows(products)), "number_of_approvals")

\* populate_sellers_sql with COUNT(appl_no), the DISTINCT left out
populate_sellers_sql_not_distinct(sales) ==
    join_update(sales,
                {[ingredient |-> g[1], dosage |-> g[2],
                  n |-> count_appl_no({r \in Rows(sales) :
                                          r.ingredient = g[1] /\ r.dosage = g[2]})]
                    : g \in {<<r.ingredient, r.dosage>> :
                                r \in {q \in Rows(sales) :
                                          q.ingredient # NULL /\ q.dosage # NULL}}},
                "number_of_sellers")

populate_sellers_sql(sales) ==
    join_update(sales,
                group_by_ingredient_dosage(
                    {r \in Rows(sales) : r.ingredient # NULL /\ r.dosage # NULL}),
                "number_of_sellers")

\* The join conditions of the three DELETE statements (without id)
products_match(p1, p2) ==
    /\ Eq(p1.appl_no, p2.appl_no)
    /\ EqOrBothNull(p1.appl_type, p2.appl_type)
    /\ Eq(p1.ingredient, p2.ingredient)
    /\ EqOrBothNull(p1.dosage, p2.dosage)
    /\ EqOrBothNull(p1.form, p2.form)
    /\ EqOrBothNull(p1.route, p2.route)
    /\ EqOrBothNull(p1.trade_name, p2.trade_name)
    /\ EqOrBothNull(p1.applicant, p2.applicant)
    /\ EqOrBothNull(p1.strength, p2.strength)
    /\ EqOrBothNull(p1.te_code, p2.te_code)
    /\ EqOrBothNull(p1.approval_date, p2.approval_date)
    /\ EqOrBothNull(p1.rld, p2.rld)
    /\ EqOrBothNull(p1.rs, p2.rs)
    /\ EqOrBothNull(p1.type, p2.type)
    /\ EqOrBothNull(p1.applicant_full_name, p2.applicant_full_name)
    /\ EqOrBothNull(p1.number_of_approvals, p2.number_of_approvals)

exclusivity_match(e1, e2) ==
    /\ Eq(e1.appl_no, e2.appl_no)
    /\ EqOrBothNull(e1.appl_type, e2.appl_type)
    /\ Eq(e1.ingredient, e2.ingredient)
    /\ EqOrBothNull(e1.dosage, e2.dosage)
    /\ EqOrBothNull(e1.form, e2.form)
    /\ EqOrBothNull(e1.route, e2.route)
    /\ EqOrBothNull(e1.trade_name, e2.trade_name)
    /\ EqOrBothNull(e1.strength, e2.strength)
    /\ EqOrBothNull(e1.exclusivity_code, e2.exclusivity_code)
    /\ EqOrBothNull(e1.exclusivity_date, e2.exclusivity_date)

patent_match(pt1, pt2) ==
    /\ Eq(pt1.appl_no, pt2.appl_no)
    /\ EqOrBothNull(pt1.appl_type, pt2.appl_type)
    /\ Eq(pt1.ingredient, pt2.ingredient)
    /\ EqOrBothNull(pt1.dosage, pt2.dosage)
    /\ EqOrBothNull(pt1.form, pt2.form)
    /\ EqOrBothNull(pt1.route, pt2.route)
    /\ EqOrBothNull(pt1.trade_name, pt2.trade_name)
    /\ EqOrBothNull(pt1.applicant, pt2.applicant)
    /\ EqOrBothNull(pt1.strength, pt2.strength)
    /\ EqOrBothNull(pt1.patent_no, pt2.patent_no)
    /\ EqOrBothNull(pt1.patent_expire_date_text, pt2.patent_expire_date_text)
    /\ EqOrBothNull(pt1.drug_substance_flag, pt2.drug_substance_flag)
    /\ EqOrBothNull(pt1.drug_product_flag, pt2.drug_product_flag)
    /\ EqOrBothNull(pt1.patent_use_code, pt2.patent_use_code)
    /\ EqOrBothNull(pt1.submission_date, pt2.submission_date)

table_match(t, r1, r2) ==
    CASE t = "products" -> products_match(r1, r2)
      [] t = "exclusivity" -> exclusivity_match(r1, r2)
      [] t = "patent" -> patent_match(r1, r2)

\* DELETE t1 FROM t t1 INNER JOIN t t2 WHERE t1.id > t2.id AND <match>:
\* every row that joins some row of a smaller id is deleted
delete_duplicates(t, table) ==
    SelectSeq(table, LAMBDA r1 :
        ~ \E k \in 1..Len(table) : r1.id > table[k].id /\ table_match(t, r1, table[k]))

\* ------------------------------------------------------------------------
\* The extracts: what pandas.read_csv returns for each file
\* ------------------------------------------------------------------------
\* Sequences over S of length at most n
SeqsUpTo(S, n) == UNION {[1..k -> S] : k \in 0..n}

\* A DataFrame without the columns in cols
Drop(df, cols) == [k \in 1..Len(df) |-> [c \in DOMAIN df[k] \ cols |-> df[k][c]]]

Chars(n) == CASE n = 0 -> <<>> [] n = 1 -> <<"7">> [] n = 2 -> <<"4", "2">>
              [] n = 3 -> <<"1", "2", "3">> [] n = 6 -> <<"1", "2", "3", "4", "5", "6">>

ProductsRow(appl_no, ingredient, dosage, approval_date) ==
    [c \in {"Appl_No", "Appl_Type", "Ingredient", "Dosage", "Form", "Route",
            "Trade_Name", "Applicant", "Strength", "TE_Code", "Approval_Date",
            "RLD", "RS", "Type", "Applicant_Full_Name"} |->
        CASE c = "Appl_No" -> appl_no
          [] c = "Appl_Type" -> Str("N")
          [] c = "Ingredient" -> ingredient
          [] c = "Dosage" -> dosage
          [] c = "Form" -> Str("TABLET")
          [] c = "Route" -> Str("ORAL")
          [] c = "Trade_Name" -> Str("BAYER")
          [] c = "Applicant" -> Str("BAYER")
          [] c = "Strength" -> Str("81MG")
          [] c = "TE_Code" -> NaN
          [] c = "Approval_Date" -> approval_date
          [] c = "RLD" -> Str("Yes")
          [] c = "RS" -> Str("No")
          [] c = "Type" -> Str("OTC")
          [] c = "Applicant_Full_Name" -> Str("BAYER HEALTHCARE LLC")]

ExclusivityRow(appl_no, ingredient, exclusivity_date) ==
    [c \in {"Appl_No", "Appl_Type", "Ingredient", "Dosage", "Form", "Route",
            "Trade_Name", "Strength", "Exclusivity_Code", "Exclusivity_Date"} |->
        CASE c = "Appl_No" -> appl_no
          [] c = "Appl_Type" -> Str("N")
          [] c = "Ingredient" -> ingredient
          [] c = "Dosage" -> Str("TABLET")
          [] c = "Form" -> Str("TABLET")
          [] c = "Route" -> Str("ORAL")
          [] c = "Trade_Name" -> Str("BAYER")
          [] c = "Strength" -> Str("81MG")
          [] c = "Exclusivity_Code" -> Str("NCE")
          [] c = "Exclusivity_Date" -> exclusivity_date]

PatentRow(appl_no, ingredient, submission_date) ==
    [c \in {"Appl_No", "Appl_Type", "Ingredient", "Dosage", "Form", "Route",
            "Trade_Name", "Applicant", "Strength", "Patent_No",
            "Patent_Expire_Date_Text", "Drug_Substance_Flag", "Drug_Product_Flag",
            "Patent_Use_Code", "Submission_Date"} |->
        CASE c = "Appl_No" -> appl_no
          [] c = "Appl_Type" -> Str("N")
          [] c = "Ingredient" -> ingredient
          [] c = "Dosage" -> Str("TABLET")
          [] c = "Form" -> Str("TABLET")
          [] c = "Route" -> Str("ORAL")
          [] c = "Trade_Name" -> Str("BAYER")
          [] c = "Applicant" -> Str("BAYER")
          [] c = "Strength" -> Str("81MG")
          [] c = "Patent_No" -> Str("7654321")
          [] c = "Patent_Expire_Date_Text" -> Str("Jan 1, 2030")
          [] c = "Drug_Substance_Flag" -> Str("Y")
          [] c = "Drug_Product_Flag" -> NaN
          [] c = "Patent_Use_Code" -> NaN
          [] c = "Submission_Date" -> submission_date]

NdcRow(labeler_code, product_code, application_number) ==
    [c \in {"Labeler Code", "Product Code", "Application Number"} |->
        CASE c = "Labeler Code" -> labeler_code
          [] c = "Product Code" -> product_code
          [] c = "Application Number" -> application_number]

SalesRow(labeler_code, product_code, ingredient, dosage) ==
    [c \in {"Ingredient", "Route", "Route Ext", "Dosage", "Manufacturer", "Strength",
            "Pack_Quantity", "NDC Number", "Labeler Code", "Product Code", "Sales",
            "Packs", "Quantity", "WAC", "Price"} |->
        CASE c = "Ingredient" -> ingredient
          [] c = "Route" -> Str("ORAL")
          [] c = "Route Ext" -> NaN
          [] c = "Dosage" -> dosage
          [] c = "Manufacturer" -> Str("BAYER")
          [] c = "Strength" -> Str("81MG")
          [] c = "Pack_Quantity" -> Str(<<"1", ",", "0", "0", "0">>)
          [] c = "NDC Number" -> Str(<<" ", "1", "2", "3", "4", "2">>)
          [] c = "Labeler Code" -> labeler_code
          [] c = "Product Code" -> product_code
          [] c = "Sales" -> Str(<<"$", "1", ",", "2", "0", "0", ".", "5", "0">>)
          [] c = "Packs" -> Str(<<"1", "2">>)
          [] c = "Quantity" -> Str(<<"n", "/", "a">>)
          [] c = "WAC" -> NaN
          [] c = "Price" -> Str(<<"9", ".", "9", "9">>)]

\* One extract of each kind with a single ordinary row
OneNdc == <<NdcRow(Str(Chars(3)), Str(Chars(2)), Str(<<"N", "1">>))>>
OneProducts == <<ProductsRow(Str("N1"), Str("ASPIRIN"), Str("81MG"), Str("2020-01-01"))>>
OneExclusivity == <<ExclusivityRow(Str("N1"), Str("ASPIRIN"), Str("2021-06-30"))>>
OnePatent == <<PatentRow(Str("N1"), Str("ASPIRIN"), NaN)>>
OneSales == <<SalesRow(Str(Chars(3)), Str(Chars(2)), Str("ASPIRIN"), Str("81MG"))>>

\* ------------------------------------------------------------------------
\* State
\* ------------------------------------------------------------------------
VARIABLES
    csv,         \* the five DataFrames read_csv returns, by extract
    ndc_lookup,  \* build_ndc_lookup's lookup, then main's ndc_lookup
    db,          \* the committed rows of the four tables, in id order
    pc,          \* the function main is in, or "done" / "failed"
    i,           \* rows of the current DataFrame the running loop has taken
    batch,       \* the running loader's batch
    commits,     \* the batch inserts committed so far: <<table, rows>>
    error        \* what made the run fail, "" while it has not

vars == <<csv, ndc_lookup, db, pc, i, batch, commits, error>>

Tables == {"products", "exclusivity", "patent", "sales"}

\* The DataFrame the function at pc iterates over
df ==
    CASE pc = "build_ndc_lookup" -> csv.ndc
      [] pc = "load_products" -> csv.products
      [] pc = "load_exclusivity" -> csv.exclusivity
      [] pc = "load_patents" -> csv.patent
      [] pc = "load_sales" -> csv.sales
      [] OTHER -> <<>>

\* The columns an INSERT leaves to their default
unlisted(t) ==
    IF t = "products" THEN [number_of_approvals |-> NULL] ELSE <<>>

\* next_call with the call of load_sales left out of main
next_call_skips_sales(f) ==
    CASE f = "build_ndc_lookup" -> "load_products"
      [] f = "load_products" -> "load_exclusivity"
      [] f = "load_exclusivity" -> "load_patents"
      [] f = "load_patents" -> "populate_number_of_product_approvals"
      [] f = "load_sales" -> "populate_number_of_product_approvals"
      [] f = "populate_number_of_product_approvals" -> "populate_number_of_sellers"
      [] f = "populate_number_of_sellers" -> "remove_duplicates_products"
      [] f = "remove_duplicates_products" -> "remove_duplicates_exclusivity"
      [] f = "remove_duplicates_exclusivity" -> "remove_duplicates_patent"
      [] f = "remove_duplicates_patent" -> "verify"
      [] f = "verify" -> "done"

\* main's sequence of calls
next_call(f) ==
    CASE f = "build_ndc_lookup" -> "load_products"
      [] f = "load_products" -> "load_exclusivity"
      [] f = "load_exclusivity" -> "load_patents"
      [] f = "load_patents" -> "load_sales"
      [] f = "load_sales" -> "populate_number_of_product_approvals"
      [] f = "populate_number_of_product_approvals" -> "populate_number_of_sellers"
      [] f = "populate_number_of_sellers" -> "remove_duplicates_products"
      [] f = "remove_duplicates_products" -> "remove_duplicates_exclusivity"
      [] f = "remove_duplicates_exclusivity" -> "remove_duplicates_patent"
      [] f = "remove_duplicates_patent" -> "verify"
      [] f = "verify" -> "done"

InitWith(extracts) ==
    /\ csv \in extracts
    /\ ndc_lookup = <<>>
    /\ db = [t \in Tables |-> <<>>]
    /\ pc = "build_ndc_lookup"
    /\ i = 0
    /\ batch = <<>>
    /\ commits = <<>>
    /\ error = ""

\* ------------------------------------------------------------------------
\* Actions
\* ------------------------------------------------------------------------
\* One iteration of build_ndc_lookup's loop
build_ndc_lookup_row ==
    /\ pc = "build_ndc_lookup"
    /\ i < Len(df)
    /\ ndc_lookup' = ndc_step(ndc_lookup, df[i + 1])
    /\ i' = i + 1
    /\ UNCHANGED <<csv, db, pc, batch, commits, error>>

\* build_ndc_lookup returns the dictionary to main
build_ndc_lookup_return ==
    /\ pc = "build_ndc_lookup"
    /\ i = Len(df)
    /\ pc' = next_call(pc)
    /\ i' = 0
    /\ UNCHANGED <<csv, ndc_lookup, db, batch, commits, error>>

\* One iteration of a batching loader's loop: append, and insert and
\* commit the batch when it has reached batch_size
loop_batched(t, values) ==
    /\ i < Len(df)
    /\ LET b == Append(batch, values)
       IN  IF Len(b) >= batch_size
           THEN /\ db' = [db EXCEPT ![t] = executemany(@, b, unlisted(t))]
                /\ commits' = Append(commits, <<t, Len(b)>>)
                /\ batch' = <<>>
           ELSE /\ batch' = b
                /\ UNCHANGED <<db, commits>>
    /\ i' = i + 1
    /\ UNCHANGED <<csv, ndc_lookup, pc, error>>

\* After a batching loader's loop: `if batch:` insert and commit; return
end_batched(t) ==
    /\ i = Len(df)
    /\ IF batch # <<>>
       THEN /\ db' = [db EXCEPT ![t] = executemany(@, batch, unlisted(t))]
            /\ commits' = Append(commits, <<t, Len(batch)>>)
       ELSE UNCHANGED <<db, commits>>
    /\ batch' = <<>>
    /\ pc' = next_call(pc)
    /\ i' = 0
    /\ UNCHANGED <<csv, ndc_lookup, error>>

load_products_row ==
    /\ pc = "load_products"
    /\ loop_batched("products", products_values(df[i + 1]))

load_products_end ==
    /\ pc = "load_products"
    /\ end_batched("products")

\* load_exclusivity only appends in its loop
load_exclusivity_row ==
    /\ pc = "load_exclusivity"
    /\ i < Len(df)
    /\ batch' = Append(batch, exclusivity_values(df[i + 1]))
    /\ i' = i + 1
    /\ UNCHANGED <<csv, ndc_lookup, db, pc, commits, error>>

\* and inserts and commits the whole batch, be it empty, after the loop
load_exclusivity_end ==
    /\ pc = "load_exclusivity"
    /\ i = Len(df)
    /\ db' = [db EXCEPT !["exclusivity"] = executemany(@, batch, unlisted("exclusivity"))]
    /\ commits' = Append(commits, <<"exclusivity", Len(batch)>>)
    /\ batch' = <<>>
    /\ pc' = next_call(pc)
    /\ i' = 0
    /\ UNCHANGED <<csv, ndc_lookup, error>>

load_patents_row ==
    /\ pc = "load_patents"
    /\ loop_batched("patent", patent_values(df[i + 1]))

load_patents_end ==
    /\ pc = "load_patents"
    /\ end_batched("patent")

load_sales_row ==
    /\ pc = "load_sales"
    /\ loop_batched("sales", sales_values(df[i + 1], ndc_lookup))

load_sales_end ==
    /\ pc = "load_sales"
    /\ end_batched("sales")

populate_number_of_product_approvals ==
    /\ pc = "populate_number_of_product_approvals"
    /\ db' = [db EXCEPT !["products"] = populate_approvals_sql(@)]
    /\ pc' = next_call(pc)
    /\ UNCHANGED <<csv, ndc_lookup, i, batch, commits, error>>

populate_number_of_sellers ==
    /\ pc = "populate_number_of_sellers"
    /\ db' = [db EXCEPT !["sales"] = populate_sellers_sql(@)]
    /\ pc' = next_call(pc)
    /\ UNCHANGED <<csv, ndc_lookup, i, batch, commits, error>>

\* remove_duplicates: three DELETE statements, each committed on its own
remove_duplicates_products ==
    /\ pc = "remove_duplicates_products"
    /\ db' = [db EXCEPT !["products"] = delete_duplicates("products", @)]
    /\ pc' = next_call(pc)
    /\ UNCHANGED <<csv, ndc_lookup, i, batch, commits, error>>

remove_duplicates_exclusivity ==
    /\ pc = "remove_duplicates_exclusivity"
    /\ db' = [db EXCEPT !["exclusivity"] = delete_duplicates("exclusivity", @)]
    /\ pc' = next_call(pc)
    /\ UNCHANGED <<csv, ndc_lookup, i, batch, commits, error>>

\* remove_duplicates_patent with a DELETE of the same shape run on sales too
remove_duplicates_patent_and_sales ==
    /\ pc = "remove_duplicates_patent"
    /\ db' = [db EXCEPT !["patent"] = delete_duplicates("patent", @),
                        !["sales"] = SelectSeq(@, LAMBDA s1 :
                            ~ \E k \in 1..Len(@) :
                                /\ s1.id > @[k].id
                                /\ \A c \in DOMAIN s1 \ {"id"} : EqOrBothNull(s1[c], @[k][c]))]
    /\ pc' = next_call(pc)
    /\ UNCHANGED <<csv, ndc_lookup, i, batch, commits, error>>

remove_duplicates_patent ==
    /\ pc = "remove_duplicates_patent"
    /\ db' = [db EXCEPT !["patent"] = delete_duplicates("patent", @)]
    /\ pc' = next_call(pc)
    /\ UNCHANGED <<csv, ndc_lookup, i, batch, commits, error>>

\* The final counts: five SELECT COUNT(*) and prints, no change to the store
verify ==
    /\ pc = "verify"
    /\ pc' = next_call(pc)
    /\ UNCHANGED <<csv, ndc_lookup, db, i, batch, commits, error>>

\* except with the exception swallowed where it was raised: the batch or
\* statement is dropped and the run goes on
except_goes_on(kind) ==
    /\ error' = kind
    /\ batch' = <<>>
    /\ UNCHANGED <<csv, ndc_lookup, db, pc, i, commits>>

\* main's except branch: conn.rollback() drops what is not committed (the
\* store holds the committed rows only) and the exception is raised again
except(kind) ==
    /\ pc' = "failed"
    /\ error' = kind
    /\ batch' = <<>>
    /\ UNCHANGED <<csv, ndc_lookup, db, i, commits>>

\* pd.read_csv, the first statement of the five functions, raises
read_csv_raises ==
    /\ pc \in {"build_ndc_lookup", "load_products", "load_exclusivity",
               "load_patents", "load_sales"}
    /\ i = 0
    /\ batch = <<>>
    /\ except("SourceReadFailure")

\* Whether the loader at pc is about to insert and commit a batch
at_commit ==
    IF pc \in {"load_products", "load_patents", "load_sales"}
    THEN IF i < Len(df) THEN Len(batch) + 1 >= batch_size ELSE batch # <<>>
    ELSE pc = "load_exclusivity" /\ i = Len(df)

\* cursor.executemany or conn.commit raises in a loader
executemany_raises ==
    /\ at_commit
    /\ except("BatchCommitFailure")

\* cursor.execute or conn.commit raises in an aggregate pass, in a DELETE
\* of remove_duplicates or in a count of the verification
execute_raises ==
    /\ pc \in {"populate_number_of_product_approvals", "populate_number_of_sellers",
               "remove_duplicates_products", "remove_duplicates_exclusivity",
               "remove_duplicates_patent", "verify"}
    /\ except(IF pc = "verify" THEN "QueryFailure" ELSE "AggregateOrDedupFailure")

\* The SELECT COUNT(*) that follows the commit of an aggregate pass raises:
\* the UPDATE stays committed
select_count_raises ==
    /\ pc \in {"populate_number_of_product_approvals", "populate_number_of_sellers"}
    /\ db' = IF pc = "populate_number_of_product_approvals"
             THEN [db EXCEPT !["products"] = populate_approvals_sql(@)]
             ELSE [db EXCEPT !["sales"] = populate_sellers_sql(@)]
    /\ pc' = "failed"
    /\ error' = "QueryFailure"
    /\ batch' = <<>>
    /\ UNCHANGED <<csv, ndc_lookup, i, commits>>

Next ==
    \/ build_ndc_lookup_row
    \/ build_ndc_lookup_return
    \/ load_products_row
    \/ load_products_end
    \/ load_exclusivity_row
    \/ load_exclusivity_end
    \/ load_patents_row
    \/ load_patents_end
    \/ load_sales_row
    \/ load_sales_end
    \/ populate_number_of_product_approvals
    \/ populate_number_of_sellers
    \/ remove_duplicates_products
    \/ remove_duplicates_exclusivity
    \/ remove_duplicates_patent
    \/ verify
    \/ read_csv_raises
    \/ executemany_raises
    \/ execute_raises
    \/ select_count_raises

\* ------------------------------------------------------------------------
\* Spec: whole runs over small extracts of every kind
\* ------------------------------------------------------------------------
MaxRows == 2

SpecProducts ==
    {Drop(s, d) : s \in SeqsUpTo({ProductsRow(Str("N1"), Str("ASPIRIN"), Str("81MG"), Str("2020-01-01")),
                                  ProductsRow(Str("N2"), Str("ASPIRIN"), NaN, NaN)}, MaxRows),
                  d \in {{}, {"Ingredient"}}}

SpecSales ==
    {Drop(s, d) : s \in SeqsUpTo({SalesRow(Str(Chars(3)), Str(Chars(2)), Str("ASPIRIN"), Str("81MG")),
                                  SalesRow(Str(Chars(1)), Str(Chars(2)), Str("ASPIRIN"), NaN)}, MaxRows),
                  d \in {{}, {"Dosage"}}}

SpecExtracts ==
    {[ndc |-> OneNdc, products |-> p, exclusivity |-> OneExclusivity,
      patent |-> OnePatent, sales |-> s] : p \in SpecProducts, s \in SpecSales}

Init == InitWith(SpecExtracts)

Spec == Init /\ [][Next]_vars

\* ------------------------------------------------------------------------
\* The orchestrator's stages
\* ------------------------------------------------------------------------
Stage(f) ==
    CASE f = "build_ndc_lookup" -> "BuildingXref"
      [] f = "load_products" -> "LoadingProducts"
      [] f = "load_exclusivity" -> "LoadingExclusivity"
      [] f = "load_patents" -> "LoadingPatents"
      [] f = "load_sales" -> "LoadingSales"
      [] f \in {"populate_number_of_product_approvals", "populate_number_of_sellers"}
           -> "Aggregating"
      [] f \in {"remove_duplicates_products", "remove_duplicates_exclusivity",
                "remove_duplicates_patent"} -> "Deduplicating"
      [] f = "verify" -> "Verifying"
      [] f = "done" -> "Done"
      [] f = "failed" -> "Failed"

StageOrder ==
    <<"BuildingXref", "LoadingProducts", "LoadingExclusivity", "LoadingPatents",
      "LoadingSales", "Aggregating", "Deduplicating", "Verifying", "Done">>

StageIndex(s) == CHOOSE k \in 1..Len(StageOrder) : StageOrder[k] = s

\* The stage at pc comes at or after stage s in a run that has not failed
Reached(s) == pc # "failed" /\ StageIndex(Stage(pc)) >= StageIndex(s)

\* The whole mapping build_ndc_lookup makes of a DataFrame
RECURSIVE ndc_lookup_of(_)
ndc_lookup_of(rows) ==
    IF rows = <<>> THEN <<>>
    ELSE ndc_step(ndc_lookup_of(SubSeq(rows, 1, Len(rows) - 1)), rows[Len(rows)])

\* Every row of the extract is a committed row of table t
Loaded(t) == Len(db[t]) = Len(csv[t])

\* C1: the stages run in the order BuildingXref, LoadingProducts,
\* LoadingExclusivity, LoadingPatents, LoadingSales, Aggregating,
\* Deduplicating, Verifying, Done: every step stays in its stage, moves to
\* the next one or, from a non-terminal stage, to Failed; a stage is only
\* entered with the work of the earlier ones complete (the mapping built,
\* each earlier table loaded in full; all four loaded before the aggregate
\* passes; both passes applied when deduplication starts).
C1_StageOrder ==
    /\ [][/\ Stage(pc) \in {"Done", "Failed"} => pc' = pc
          /\ Stage(pc) \notin {"Done", "Failed"} =>
                \/ Stage(pc') = Stage(pc)
                \/ Stage(pc') = StageOrder[StageIndex(Stage(pc)) + 1]
                \/ Stage(pc') = "Failed"]_vars
    /\ [](/\ Reached("LoadingProducts") => ndc_lookup = ndc_lookup_of(csv.ndc)
          /\ (Reached("LoadingExclusivity") /\ ~Reached("Deduplicating")) => Loaded("products")
          /\ (Reached("LoadingPatents") /\ ~Reached("Deduplicating")) => Loaded("exclusivity")
          /\ (Reached("LoadingSales") /\ ~Reached("Deduplicating")) => Loaded("patent")
          /\ Reached("Aggregating") => Loaded("sales")
          /\ pc = "remove_duplicates_products" =>
                /\ db.products = populate_approvals_sql(db.products)
                /\ db.sales = populate_sellers_sql(db.sales)
                /\ Loaded("products") /\ Loaded("exclusivity") /\ Loaded("patent"))

\* A run that is Done after loading two products rows and two sales rows
C1_Witness ==
    /\ pc = "done"
    /\ Len(commits) = 4
    /\ Len(csv.products) = 2
    /\ Len(db.sales) = 2

\* C2 as claimed: at Done every products row has a non-null
\* number_of_approvals and every sales row a non-null number_of_sellers
C2_Claimed ==
    pc = "done" =>
        /\ \A r \in Rows(db.products) : r.number_of_approvals # NULL
        /\ \A r \in Rows(db.sales) : r.number_of_sellers # NULL

\* C2 amended: at Done every products row whose ingredient and dosage are
\* both non-null has a non-null number_of_approvals, and every sales row
\* whose ingredient and dosage are both non-null has a non-null
\* number_of_sellers
C2_AggregatesPopulated ==
    pc = "done" =>
        /\ \A r \in Rows(db.products) :
              (r.ingredient # NULL /\ r.dosage # NULL) => r.number_of_approvals # NULL
        /\ \A r \in Rows(db.sales) :
              (r.ingredient # NULL /\ r.dosage # NULL) => r.number_of_sellers # NULL

\* Done with a counted products row and a counted sales row
C2_Witness ==
    /\ pc = "done"
    /\ \E r \in Rows(db.products) : r.ingredient # NULL /\ r.number_of_approvals # NULL
    /\ \E r \in Rows(db.sales) : r.dosage # NULL /\ r.number_of_sellers # NULL

\* ------------------------------------------------------------------------
\* TablesSpec: whole runs over the extracts of the three approval tables
\* ------------------------------------------------------------------------
MaxTableRows == 3

TablesProducts ==
    {Drop(s, d) :
        s \in SeqsUpTo({ProductsRow(Str("N1"), Str("ASPIRIN"), Str("81MG"), Str("2020-01-01")),
                        ProductsRow(Str("N2"), Str("ASPIRIN"), Str("81MG"), Str("2020-01-01")),
                        ProductsRow(Str("N3"), Str("ASPIRIN"), Str("81MG"), Str("2020-01-01")),
                        ProductsRow(Str("N1"), Str("ASPIRIN"), Str("81MG"), NaN),
                        ProductsRow(Str("N1"), Str("ASPIRIN"), Str("81MG"), Str("2020-1-1")),
                        ProductsRow(Str("N3"), Str("ASPIRIN"), Str("325MG"), Str("2020-01-01"))},
                       MaxTableRows),
        d \in {{}, {"Appl_No"}, {"Ingredient"}}}

TablesExclusivity ==
    {Drop(s, d) :
        s \in SeqsUpTo({ExclusivityRow(Str("N1"), Str("ASPIRIN"), Str("2021-06-30")),
                        ExclusivityRow(Str("N1"), Str("ASPIRIN"), Str("06/30/2021")),
                        ExclusivityRow(Str("N2"), Str("ASPIRIN"), Str("2021-06-30"))},
                       MaxTableRows),
        d \in {{}, {"Appl_No"}}}

TablesPatent ==
    {Drop(s, d) :
        s \in SeqsUpTo({PatentRow(Str("N1"), Str("ASPIRIN"), Str("2021-06-30")),
                        PatentRow(Str("N1"), Str("ASPIRIN"), NaN),
                        PatentRow(Str("N2"), NaN, Str("2021-06-30"))},
                       MaxTableRows),
        d \in {{}, {"Ingredient"}}}

TablesExtracts ==
    {[ndc |-> OneNdc, products |-> p, exclusivity |-> OneExclusivity,
      patent |-> OnePatent, sales |-> OneSales] : p \in TablesProducts}
    \cup {[ndc |-> OneNdc, products |-> OneProducts, exclusivity |-> e,
           patent |-> OnePatent, sales |-> OneSales] : e \in TablesExclusivity}
    \cup {[ndc |-> OneNdc, products |-> OneProducts, exclusivity |-> OneExclusivity,
           patent |-> t, sales |-> OneSales] : t \in TablesPatent}

TablesInit == InitWith(TablesExtracts)

TablesSpec == TablesInit /\ [][Next]_vars

\* The three tables remove_duplicates works on, and the call that
\* deduplicates each
DedupTables == {"products", "exclusivity", "patent"}

DedupCall(t) == "remove_duplicates_" \o t

\* The DELETE of table t has been committed
Deduplicated(t) ==
    CASE t = "products" -> pc \in {"remove_duplicates_exclusivity",
                                   "remove_duplicates_patent", "verify", "done"}
      [] t = "exclusivity" -> pc \in {"remove_duplicates_patent", "verify", "done"}
      [] t = "patent" -> pc \in {"verify", "done"}

\* Null-safe equality of the whole tuple of business columns (all but id)
SameIdentity(r1, r2) == \A c \in DOMAIN r1 \ {"id"} : r1[c] = r2[c]

\* The two rows agree on every business column but one, which is NULL in
\* one of them and populated in the other
DifferOnlyByNull(r1, r2) ==
    \E c \in DOMAIN r1 \ {"id"} :
        /\ (r1[c] = NULL) # (r2[c] = NULL)
        /\ \A d \in DOMAIN r1 \ {"id", c} : r1[d] = r2[d]

\* The rows of a table with no row of a smaller id of the same identity
FirstOfIdentity(table) ==
    SelectSeq(table, LAMBDA r :
        ~ \E q \in Rows(table) : q.id < r.id /\ SameIdentity(r, q))

\* C3 as claimed: in each of the three tables two rows are matched by
\* remove_duplicates exactly when all their business columns are equal or
\* both NULL, appl_no and ingredient included, and once a table has been
\* deduplicated no two of its rows have such equal tuples
C3_Claimed ==
    \A t \in DedupTables :
        /\ \A r1, r2 \in Rows(db[t]) :
              r1.id # r2.id => (table_match(t, r1, r2) <=> SameIdentity(r1, r2))
        /\ Deduplicated(t) =>
              \A r1, r2 \in Rows(db[t]) : r1.id # r2.id => ~SameIdentity(r1, r2)

\* C4 as claimed: the DELETE of each table leaves, of every set of rows of
\* one identity, the row of the smallest id and no other, and removes no
\* row that has no duplicate of a smaller id
C4_Claimed ==
    [][\A t \in DedupTables :
          (pc = DedupCall(t) /\ pc' = next_call(pc)) => db'[t] = FirstOfIdentity(db[t])]_vars

\* C5 as claimed: two rows that agree on every business column but one,
\* NULL in one and populated in the other, are matched as duplicates, and
\* no such pair is left in a deduplicated table
C5_Claimed ==
    \A t \in DedupTables :
        \A r1, r2 \in Rows(db[t]) :
            DifferOnlyByNull(r1, r2) => (table_match(t, r1, r2) /\ ~Deduplicated(t))

\* C5 amended: two such rows are not matched as duplicates of each other,
\* and a DELETE removes a row only when a row of a smaller id equals it in
\* every business column (NULL equal to NULL only), so a pair that differs
\* by NULL against a value is not collapsed
C5_NullIsNotAWildcard ==
    /\ [](\A t \in DedupTables :
            \A r1, r2 \in Rows(db[t]) :
                DifferOnlyByNull(r1, r2) => ~table_match(t, r1, r2))
    /\ [][\A t \in DedupTables :
            (pc = DedupCall(t) /\ pc' = next_call(pc)) =>
                \A r \in Rows(db[t]) \ Rows(db'[t]) :
                    \E q \in Rows(db[t]) : q.id < r.id /\ SameIdentity(r, q)]_vars

\* Done, with a products pair that differs only by a NULL approval_date
\* still there, after one duplicate row of it was removed
C5_Witness ==
    /\ pc = "done"
    /\ Len(db.products) < Len(csv.products)
    /\ \E r1, r2 \in Rows(db.products) : DifferOnlyByNull(r1, r2)

\* The products rows of the group of r
GroupOf(r) == {q \in Rows(db.products) : q.ingredient = r.ingredient /\ q.dosage = r.dosage}

\* The approval pass has run and products has not been deduplicated
ApprovalsPopulated == pc \in {"populate_number_of_sellers", "remove_duplicates_products"}

\* C10: after the approval-count pass every products row with non-null
\* ingredient and dosage carries the number of distinct application
\* numbers of the products rows with its (ingredient, dosage), and the
\* pass over the rows of its group alone gives it the same value
C10_ApprovalCount ==
    ApprovalsPopulated =>
        \A k \in 1..Len(db.products) :
            LET r == db.products[k]
                own == SelectSeq(db.products, LAMBDA q : q \in GroupOf(r))
            IN  (r.ingredient # NULL /\ r.dosage # NULL) =>
                  /\ r.number_of_approvals =
                        PyInt(Cardinality({a \in {q.appl_no : q \in GroupOf(r)} : a # NULL}))
                  /\ \A j \in 1..Len(own) :
                        own[j].id = r.id =>
                            populate_approvals_sql(own)[j].number_of_approvals
                                = r.number_of_approvals

\* After the pass: two rows of one group with distinct application numbers
\* carry the count 2, beside a row of another dosage with the count 1
C10_Witness ==
    /\ ApprovalsPopulated
    /\ \E r \in Rows(db.products) :
          /\ Cardinality(GroupOf(r)) = 2
          /\ r.number_of_approvals = PyInt(2)
    /\ \E r \in Rows(db.products) :
          /\ Cardinality(GroupOf(r)) = 1
          /\ r.number_of_approvals = PyInt(1)

\* ------------------------------------------------------------------------
\* XrefSpec: whole runs over identifier extracts and the sales rows they link
\* ------------------------------------------------------------------------
MaxNdcRows == 2

Blank == Str(<<" ", " ">>)

XrefNdc ==
    SeqsUpTo({NdcRow(Str(Chars(3)), Str(Chars(2)), Str(<<"N", "1">>)),
              NdcRow(Str(Chars(3)), Str(Chars(2)), Str(<<" ", "N", "2">>)),
              NdcRow(NaN, Str(Chars(2)), Str(<<"N", "1">>)),
              NdcRow(Blank, Str(Chars(2)), Str(<<"N", "1">>)),
              NdcRow(Str(Chars(6)), Str(Chars(2)), Str(<<"N", "2">>)),
              NdcRow(Str(Chars(3)), Str(Chars(2)), NaN),
              NdcRow(Str(Chars(3)), Str(Chars(2)), Blank)},
             MaxNdcRows)

XrefSales ==
    {<<>>,
     <<SalesRow(Str(Chars(1)), Str(Chars(2)), Str("ASPIRIN"), Str("81MG"))>>,
     <<SalesRow(Str(Chars(3)), Str(Chars(2)), Str("ASPIRIN"), Str("81MG")),
       SalesRow(NaN, Str(Chars(2)), Str("ASPIRIN"), Str("81MG")),
       SalesRow(Str(Chars(1)), Str(Chars(2)), Str("ASPIRIN"), Str("81MG")),
       SalesRow(Blank, Str(Chars(2)), Str("ASPIRIN"), Str("81MG")),
       SalesRow(Str(Chars(6)), Str(Chars(2)), Str("ASPIRIN"), Str("81MG"))>>}

XrefExtracts ==
    {[ndc |-> n, products |-> OneProducts, exclusivity |-> OneExclusivity,
      patent |-> OnePatent, sales |-> s] : n \in XrefNdc, s \in XrefSales}

XrefInit == InitWith(XrefExtracts)

XrefSpec == XrefInit /\ [][Next]_vars

\* The rows of ndc.csv build_ndc_lookup has gone through
NdcTaken == IF pc = "build_ndc_lookup" THEN i ELSE Len(csv.ndc)

\* The application number row j of ndc.csv offers
NdcApplNo(j) == Str(strip(strC(get(csv.ndc[j], "Application Number", Str(<<>>)))))

\* The accepted rows among the first n that carry the key
AcceptedWith(key, n) ==
    {j \in 1..n : ndc_accepts(csv.ndc[j]) /\ ndc_key(csv.ndc[j]) = key}

AcceptedUpTo(n) == {j \in 1..n : ndc_accepts(csv.ndc[j])}

\* The rows of table t the loader's batches have committed
RECURSIVE SumOf(_, _)
SumOf(log, t) ==
    IF log = <<>> THEN 0
    ELSE SumOf(Tail(log), t) + (IF Head(log)[1] = t THEN Head(log)[2] ELSE 0)

SumRows(t) == SumOf(commits, t)

Min(S) == CHOOSE x \in S : \A y \in S : x <= y

\* C6: while the mapping is built a key that holds a non-empty application
\* number keeps it in every later step, and at each point of the loop (and
\* after it, in a run that has not failed) the keys are those of the
\* accepted rows taken so far, each with the application number of the
\* first accepted row that carries it
C6_FirstWriteWins ==
    /\ [][\A k \in DOMAIN ndc_lookup :
            ndc_lookup[k] # Str(<<>>) =>
                (k \in DOMAIN ndc_lookup' /\ ndc_lookup'[k] = ndc_lookup[k])]_vars
    /\ [](pc # "failed" =>
            /\ DOMAIN ndc_lookup = {ndc_key(csv.ndc[j]) : j \in AcceptedUpTo(NdcTaken)}
            /\ \A k \in DOMAIN ndc_lookup :
                  ndc_lookup[k] = NdcApplNo(Min(AcceptedWith(k, NdcTaken))))

\* The mapping is built and a later row offered another application number
\* for a key that was taken
C6_Witness ==
    /\ pc = "load_products"
    /\ \E k \in DOMAIN ndc_lookup :
          \E j \in AcceptedWith(k, Len(csv.ndc)) : NdcApplNo(j) # ndc_lookup[k]

\* A raw cell that is empty (NaN after read_csv) or blank
EmptyOrBlank(cell) == cell = NaN \/ strip(strC(cell)) = <<>>

\* C7 as claimed: every key of the mapping and every key a sales row was
\* looked up with is a 5-character labeler code with a 4-character product
\* code, and a row whose labeler or product cell is empty or blank makes no
\* key of the mapping and is not looked up
C7_Claimed ==
    /\ \A k \in DOMAIN ndc_lookup : Len(k[1][2]) = 5 /\ Len(k[2][2]) = 4
    /\ \A j \in 1..NdcTaken :
          (EmptyOrBlank(csv.ndc[j]["Labeler Code"]) \/ EmptyOrBlank(csv.ndc[j]["Product Code"]))
              => ~ndc_accepts(csv.ndc[j])
    /\ \A r \in Rows(db.sales) :
          (r.labeler_code # NULL /\ r.product_code # NULL) =>
              (Len(r.labeler_code[2]) = 5 /\ Len(r.product_code[2]) = 4)
    /\ \A j \in 1..Len(db.sales) :
          (EmptyOrBlank(csv.sales[j]["Labeler Code"]) \/ EmptyOrBlank(csv.sales[j]["Product Code"]))
              => (db.sales[j].labeler_code = NULL \/ db.sales[j].product_code = NULL)

\* load_sales has returned
SalesLoaded == Reached("Aggregating")

\* C8: once load_sales has returned there is one sales row per source row,
\* in source order and all committed by the loader's batches; the row's
\* appl_no is the mapping's value for its normalized (labeler, product) key
\* when the mapping has the key and NULL when it has not
C8_SalesAllLoaded ==
    SalesLoaded =>
        /\ Len(db.sales) = Len(csv.sales)
        /\ Len(db.sales) = SumRows("sales")
        /\ \A j \in 1..Len(db.sales) :
              LET key == <<zero_pad(csv.sales[j]["Labeler Code"], 5),
                           zero_pad(csv.sales[j]["Product Code"], 4)>>
              IN  /\ db.sales[j].id = j
                  /\ db.sales[j].labeler_code = key[1]
                  /\ db.sales[j].product_code = key[2]
                  /\ key \in DOMAIN ndc_lookup => db.sales[j].appl_no = ndc_lookup[key]
                  /\ key \notin DOMAIN ndc_lookup => db.sales[j].appl_no = NULL

\* After load_sales: a row linked through the mapping beside a row whose
\* key the mapping lacks, loaded with a NULL appl_no
C8_Witness ==
    /\ SalesLoaded
    /\ Len(db.sales) > 1
    /\ \E r \in Rows(db.sales) : r.appl_no # NULL
    /\ \E r \in Rows(db.sales) :
          /\ r.appl_no = NULL
          /\ r.labeler_code # NULL
          /\ <<r.labeler_code, r.product_code>> \notin DOMAIN ndc_lookup

\* ------------------------------------------------------------------------
\* LoaderSpec: whole runs over one long extract at a time
\* ------------------------------------------------------------------------
Copies(df1, n) == [k \in 1..n |-> df1[1]]

\* Row counts around the batch size, and the 2500 rows of the example
LoaderRowCounts ==
    {0, 1, batch_size, batch_size + 1, 2 * batch_size + batch_size \div 2}

LoaderExtracts ==
    {[ndc |-> OneNdc, products |-> Copies(OneProducts, n), exclusivity |-> OneExclusivity,
      patent |-> OnePatent, sales |-> OneSales] : n \in LoaderRowCounts}
    \cup {[ndc |-> OneNdc, products |-> OneProducts, exclusivity |-> Copies(OneExclusivity, n),
           patent |-> OnePatent, sales |-> OneSales] : n \in LoaderRowCounts}
    \cup {[ndc |-> OneNdc, products |-> OneProducts, exclusivity |-> OneExclusivity,
           patent |-> Copies(OnePatent, n), sales |-> OneSales] : n \in LoaderRowCounts}
    \cup {[ndc |-> OneNdc, products |-> OneProducts, exclusivity |-> OneExclusivity,
           patent |-> OnePatent, sales |-> Copies(OneSales, n)] : n \in LoaderRowCounts}

LoaderInit == InitWith(LoaderExtracts)

LoaderSpec == LoaderInit /\ [][Next]_vars

LoaderCall(t) ==
    CASE t = "products" -> "load_products"
      [] t = "exclusivity" -> "load_exclusivity"
      [] t = "patent" -> "load_patents"
      [] t = "sales" -> "load_sales"

\* The tuple the loader of table t builds of a row
ValuesOf(t, row) ==
    CASE t = "products" -> products_values(row)
      [] t = "exclusivity" -> exclusivity_values(row)
      [] t = "patent" -> patent_values(row)
      [] t = "sales" -> sales_values(row, ndc_lookup)

\* The loader of table t has just returned
JustLoaded(t) == pc = next_call(LoaderCall(t)) /\ i = 0

\* The batches with rows committed to table t, in order
Batches(t) == SelectSeq(commits, LAMBDA c : c[1] = t /\ c[2] > 0)

\* C9 as claimed: no committed batch of any of the four loaders holds more
\* than batch_size rows, and when a loader returns after N source rows it
\* has committed ceil(N / batch_size) batches, all but the last of exactly
\* batch_size rows, N rows in all, which are the source rows in order
C9_Claimed ==
    /\ \A k \in 1..Len(commits) : commits[k][2] <= batch_size
    /\ \A t \in Tables :
          JustLoaded(t) =>
              LET N == Len(csv[t])
              IN  /\ \A k \in 1..(Len(Batches(t)) - 1) : Batches(t)[k][2] = batch_size
                  /\ Len(Batches(t)) = (N + batch_size - 1) \div batch_size
                  /\ SumRows(t) = N
                  /\ Len(db[t]) = N
                  /\ \A j \in 1..N :
                        /\ db[t][j].id = j
                        /\ \A c \in DOMAIN ValuesOf(t, csv[t][j]) :
                              db[t][j][c] = ValuesOf(t, csv[t][j])[c]

\* ------------------------------------------------------------------------
\* SalesSpec: whole runs over sales extracts linked through two identifiers
\* ------------------------------------------------------------------------
MaxSalesRows == 3

TwoNdc ==
    <<NdcRow(Str(Chars(3)), Str(Chars(2)), Str(<<"N", "1">>)),
      NdcRow(Str(Chars(1)), Str(Chars(2)), Str(<<"N", "2">>))>>

SalesSales ==
    {Drop(s, d) :
        s \in SeqsUpTo({SalesRow(Str(Chars(3)), Str(Chars(2)), Str("ASPIRIN"), Str("81MG")),
                        SalesRow(Str(Chars(1)), Str(Chars(2)), Str("ASPIRIN"), Str("81MG")),
                        SalesRow(Str(Chars(2)), Str(Chars(2)), Str("ASPIRIN"), Str("325MG")),
                        SalesRow(Str(Chars(1)), Str(Chars(2)), Str("ASPIRIN"), NaN)},
                       MaxSalesRows),
        d \in {{}, {"Ingredient"}, {"Dosage"}}}

SalesExtracts ==
    {[ndc |-> TwoNdc, products |-> OneProducts \o OneProducts,
      exclusivity |-> OneExclusivity, patent |-> OnePatent, sales |-> s] : s \in SalesSales}

SalesInit == InitWith(SalesExtracts)

SalesSpec == SalesInit /\ [][Next]_vars

\* The sales rows of the group of r
SalesGroupOf(r) ==
    {q \in Rows(db.sales) : q.ingredient = r.ingredient /\ q.dosage = r.dosage}

\* The seller pass has been committed
SellersPopulated == Reached("Deduplicating")

\* C11: once the seller-count pass is committed every sales row with
\* non-null ingredient and dosage carries the number of distinct non-null
\* application numbers of the sales rows with its (ingredient, dosage), and
\* every sales row with a null ingredient or dosage a NULL count; the step
\* of the pass changes no other column of sales, no row count and no other
\* table
C11_SellerCount ==
    /\ [](SellersPopulated =>
            \A r \in Rows(db.sales) :
                IF r.ingredient # NULL /\ r.dosage # NULL
                THEN r.number_of_sellers =
                        PyInt(Cardinality({a \in {q.appl_no : q \in SalesGroupOf(r)} : a # NULL}))
                ELSE r.number_of_sellers = NULL)
    /\ [][(pc = "populate_number_of_sellers" /\ pc' = next_call(pc)) =>
            /\ \A t \in Tables \ {"sales"} : db'[t] = db[t]
            /\ Len(db'.sales) = Len(db.sales)
            /\ \A k \in 1..Len(db.sales) :
                  \A c \in DOMAIN db.sales[k] \ {"number_of_sellers"} :
                      db'.sales[k][c] = db.sales[k][c]]_vars

\* After the pass: a group of three rows of two application numbers with
\* the count 2
C11_Witness ==
    /\ SellersPopulated
    /\ \E r \in Rows(db.sales) :
          /\ Cardinality(SalesGroupOf(r)) = 3
          /\ r.number_of_sellers = PyInt(2)

\* A products extract of three rows of which the loader makes two equal
\* tuples and one unlike them
OnePairOneUnique(frame) ==
    Len(frame) = 3 /\ Cardinality({products_values(frame[k]) : k \in 1..Len(frame)}) = 2

\* C12 as claimed: at Done every products row carries the number of
\* distinct application numbers of the rows of the final products table
\* with its (ingredient, dosage), and a products extract of one duplicate
\* pair and one unique row has ended as exactly 2 rows
C12_Claimed ==
    pc = "done" =>
        /\ \A r \in Rows(db.products) :
              r.number_of_approvals =
                  PyInt(Cardinality({a \in {q.appl_no : q \in GroupOf(r)} : a # NULL}))
        /\ OnePairOneUnique(csv.products) => Len(db.products) = 2

\* The step is one in which the run fails
Fails == pc # "failed" /\ pc' = "failed"

\* The columns of a row that the loaders write
Loaded_columns(r) == DOMAIN r \ {"number_of_approvals", "number_of_sellers"}

\* C13: a raised error takes the run to Failed, where nothing happens any
\* more (no later stage, no later batch, no retry); the step in which a
\* batch insert, an aggregate pass or a DELETE fails leaves the store as it
\* was committed and drops the batch in hand; in every failing step each
\* committed row stays in its table with the values it was loaded with; and
\* after a failed batch insert every table holds the rows of its committed
\* batches, which are the first source rows in order
C13_FailedStops ==
    /\ [][/\ pc = "failed" => UNCHANGED vars
          /\ error' # "" => pc' = "failed"
          /\ (Fails /\ error' \in {"BatchCommitFailure", "AggregateOrDedupFailure"}) =>
                db' = db
          /\ Fails =>
                /\ commits' = commits
                /\ batch' = <<>>
                /\ \A t \in Tables :
                      /\ Len(db'[t]) = Len(db[t])
                      /\ \A k \in 1..Len(db[t]) :
                            \A c \in Loaded_columns(db[t][k]) : db'[t][k][c] = db[t][k][c]]_vars
    /\ []((pc = "failed" /\ error = "BatchCommitFailure") =>
            \A t \in Tables :
                /\ Len(db[t]) = SumRows(t)
                /\ \A j \in 1..Len(db[t]) :
                      /\ db[t][j].id = j
                      /\ \A c \in DOMAIN ValuesOf(t, csv[t][j]) :
                            db[t][j][c] = ValuesOf(t, csv[t][j])[c])

\* Failed by the second batch insert of load_products, the rows of the
\* committed first batch in the store
C13_Witness ==
    /\ pc = "failed"
    /\ error = "BatchCommitFailure"
    /\ commits = <<<<"products", batch_size>>>>
    /\ Len(db.products) = batch_size
    /\ Len(csv.products) > batch_size

\* C14 as claimed: when the run has failed because an extract could not be
\* read, no batch has been committed and no table holds a row
C14_Claimed ==
    (pc = "failed" /\ error = "SourceReadFailure") =>
        /\ commits = <<>>
        /\ \A t \in Tables : db[t] = <<>>

\* The identifier row has an empty or blank labeler code, product code or
\* application number cell
HasEmptyCell(row) ==
    \/ EmptyOrBlank(row["Labeler Code"])
    \/ EmptyOrBlank(row["Product Code"])
    \/ EmptyOrBlank(row["Application Number"])

\* What str makes of an empty cell: the placeholder text
Placeholder == Str(strC(NaN))

\* C15 as claimed: the iteration of build_ndc_lookup over a row with an
\* empty or blank labeler code, product code or application number leaves
\* the mapping as it was; no value of the mapping is empty or the
\* placeholder of an empty cell, and no sales row is linked to such an
\* application number
C15_Claimed ==
    /\ [][(pc = "build_ndc_lookup" /\ i' = i + 1 /\ HasEmptyCell(csv.ndc[i + 1])) =>
            ndc_lookup' = ndc_lookup]_vars
    /\ [](/\ \A k \in DOMAIN ndc_lookup : ndc_lookup[k] \notin {Str(<<>>), Placeholder}
          /\ \A r \in Rows(db.sales) : r.appl_no \notin {Str(<<>>), Placeholder})

\* The text fields of each table: <<column of the extract, column of the
\* table>>
TextColumns(t) ==
    CASE t = "products" ->
            {<<"Appl_No", "appl_no">>, <<"Appl_Type", "appl_type">>,
             <<"Ingredient", "ingredient">>, <<"Dosage", "dosage">>, <<"Form", "form">>,
             <<"Route", "route">>, <<"Trade_Name", "trade_name">>,
             <<"Applicant", "applicant">>, <<"Strength", "strength">>,
             <<"TE_Code", "te_code">>, <<"RLD", "rld">>, <<"RS", "rs">>, <<"Type", "type">>,
             <<"Applicant_Full_Name", "applicant_full_name">>}
      [] t = "exclusivity" ->
            {<<"Appl_No", "appl_no">>, <<"Appl_Type", "appl_type">>,
             <<"Ingredient", "ingredient">>, <<"Dosage", "dosage">>, <<"Form", "form">>,
             <<"Route", "route">>, <<"Trade_Name", "trade_name">>,
             <<"Strength", "strength">>, <<"Exclusivity_Code", "exclusivity_code">>}
      [] t = "patent" ->
            {<<"Appl_No", "appl_no">>, <<"Appl_Type", "appl_type">>,
             <<"Ingredient", "ingredient">>, <<"Dosage", "dosage">>, <<"Form", "form">>,
             <<"Route", "route">>, <<"Trade_Name", "trade_name">>,
             <<"Applicant", "applicant">>, <<"Strength", "strength">>,
             <<"Patent_No", "patent_no">>,
             <<"Patent_Expire_Date_Text", "patent_expire_date_text">>,
             <<"Drug_Substance_Flag", "drug_substance_flag">>,
             <<"Drug_Product_Flag", "drug_product_flag">>,
             <<"Patent_Use_Code", "patent_use_code">>}
      [] t = "sales" ->
            {<<"Ingredient", "ingredient">>, <<"Route", "route">>,
             <<"Route Ext", "route_extended">>, <<"Dosage", "dosage">>,
             <<"Manufacturer", "manufacturer">>, <<"Strength", "strength">>}

\* C16 as claimed: every text field of every stored row is NULL when the
\* cell of its source row is empty or the extract lacks the column, and is
\* the text of the cell otherwise
C16_Claimed ==
    \A t \in Tables :
        \A r \in Rows(db[t]) :
            \A p \in TextColumns(t) :
                LET row == csv[t][r.id]
                IN  r[p[2]] = IF p[1] \notin DOMAIN row \/ row[p[1]] = NaN
                              THEN NULL ELSE row[p[1]]

\* C17: no step of the deduplication stage changes the sales table, and
\* when the stage is over the table still holds one row per source row, in
\* order, rows equal in every column included
C17_SalesUntouched ==
    /\ [][Stage(pc) = "Deduplicating" => db'.sales = db.sales]_vars
    /\ [](Reached("Verifying") =>
            /\ Len(db.sales) = Len(csv.sales)
            /\ \A j \in 1..Len(db.sales) : db.sales[j].id = j)

\* Done, the duplicate products row removed and two sales rows equal in
\* every column still there
C17_Witness ==
    /\ pc = "done"
    /\ Len(db.products) < Len(csv.products)
    /\ \E r1, r2 \in Rows(db.sales) : r1.id # r2.id /\ SameIdentity(r1, r2)

\* ------------------------------------------------------------------------
\* AggSpec: whole runs over the products extracts of TablesSpec and the
\* sales extracts of SalesSpec
\* ------------------------------------------------------------------------
AggExtracts ==
    {[ndc |-> TwoNdc, products |-> p, exclusivity |-> OneExclusivity,
      patent |-> OnePatent, sales |-> OneSales] : p \in TablesProducts}
    \cup SalesExtracts

AggInit == InitWith(AggExtracts)

AggSpec == AggInit /\ [][Next]_vars

\* The orders in which n rows can be visited
Perms(n) == {f \in [1..n -> 1..n] : \A a, b \in 1..n : a # b => f[a] # f[b]}

\* The table with its rows in the order f
Permuted(table, f) == [k \in 1..Len(table) |-> table[f[k]]]

\* C18: on every products table the store comes to hold, the approval pass
\* run on its own result gives that result again, and run on the rows in
\* another order gives each row the same value; the same of the seller
\* pass on every sales table; and the table a pass has left in the store
\* is one the pass would not change
C18_Idempotent ==
    /\ LET once == populate_approvals_sql(db.products)
       IN  /\ populate_approvals_sql(once) = once
           /\ \A f \in Perms(Len(db.products)) :
                 populate_approvals_sql(Permuted(db.products, f)) = Permuted(once, f)
    /\ LET once == populate_sellers_sql(db.sales)
       IN  /\ populate_sellers_sql(once) = once
           /\ \A f \in Perms(Len(db.sales)) :
                 populate_sellers_sql(Permuted(db.sales, f)) = Permuted(once, f)
    /\ ApprovalsPopulated => populate_approvals_sql(db.products) = db.products
    /\ pc = "remove_duplicates_products" => populate_sellers_sql(db.sales) = db.sales

\* Both passes have run, on three products rows of which one has the
\* count 2
C18_Witness ==
    /\ pc = "remove_duplicates_products"
    /\ Len(db.products) = 3
    /\ \E r \in Rows(db.products) : r.number_of_approvals = PyInt(2)

====
